---- MODULE Spec2Model ----
(***************************************************************************)
(* A model of the channel mixer of src/SDL_mixer/mixer.c: the channel bank *)
(* (mix_channel, num_channels), the chunks handed to it, the control       *)
(* operations (Mix_OpenAudio .. Mix_Resume) and the mixing callback        *)
(* mix_channels.  Every control operation is one action; the callback is   *)
(* one action per buffer request.  A second specification, SpecRace,       *)
(* interleaves the callback with the single assignments of                 *)
(* Mix_PlayChannelTimed, which the source performs without any lock.       *)
(***************************************************************************)
EXTENDS Integers, Sequences, FiniteSets, TLC

(* ----------------------------- bounds --------------------------------- *)
\* the largest bank Mix_AllocateChannels is asked for
MaxChannels == 2
\* the number of chunks the caller ever loads
NumChunks == 2
\* the longest chunk (bytes) a load yields
MaxLen == 3
\* the largest buffer (bytes) the device asks mix_channels to fill
MaxBuf == 4
\* the largest finite loop count given to Mix_PlayChannelTimed
MaxLoops == 2
\* the last value of the millisecond clock LR_GetTicks
MaxTick == 3
\* the largest duration (ms) given to play and expire
MaxMs == 2
\* the largest open count reached by nested Mix_OpenAudio calls
MaxOpen == 2

(* ------------------------- program constants -------------------------- *)
\* MIX_CHANNELS, the bank size Mix_OpenAudio allocates (SDL_mixer.h sets 8;
\* the model keeps the bank at two channels)
MIX_CHANNELS == 2
SDL_MIX_MAXVOLUME == 128
MIX_MAX_VOLUME == 128
\* Mix_Fading
MIX_NO_FADING == 0
MIX_FADING_OUT == 1
MIX_FADING_IN == 2
\* the null chunk pointer
NULL == 0

Min(a, b) == IF a < b THEN a ELSE b

Chunks == 1..NumChunks
\* every index a ghost per-channel counter is kept for
Slots == 0..(IF MaxChannels > MIX_CHANNELS THEN MaxChannels ELSE MIX_CHANNELS) - 1

VARIABLES
    audio_opened,   \* the open count
    num_decoders,   \* the length of the decoder registry chunk_decoders
    mixer,          \* the obtained SDL_AudioSpec: [format, channels]
    bank_null,      \* mix_channel = NULL
    num_channels,
    mix_channel,    \* [0..num_channels-1 -> struct _Mix_Channel]
    reserved_channels,
    chunk,          \* [Chunks -> Mix_Chunk], with the state of its storage
    now,            \* LR_GetTicks()
    fired,          \* ghost: _Mix_channel_done_playing(i) calls of the last operation
    mixed,          \* ghost: bytes of channel i handed to SDL_MixAudio by the last operation
    blend,          \* ghost: the SDL_MixAudio calls the last operation made for channel i
    wavecvt,        \* ghost: the conversion the last operation set up, if it was a load
    seen,           \* ghost: Mix_Playing(i) as the last notification for i saw it (-1: none)
    hazard,         \* ghost: the last mix tick dereferenced a null or released chunk
    lastOp,         \* ghost: the operation that made the last step
    run,            \* ghost: per channel, the history of the playback started by the last play
    pc, pcArg       \* SpecRace only: the control thread's position inside Mix_PlayChannelTimed

vars == << audio_opened, num_decoders, mixer, bank_null, num_channels, mix_channel, reserved_channels,
           chunk, now, fired, mixed, blend, wavecvt, seen, hazard, lastOp, run, pc, pcArg >>

(* --------------------------- data ------------------------------------- *)
\* a channel as Mix_OpenAudio and Mix_AllocateChannels initialise it; samples,
\* start_time, fade_length and ticks_fade are left unset by the source and are
\* not read before Mix_PlayChannelTimed (or a fade) writes them
DefaultChannel ==
    [ chunk |-> NULL, playing |-> 0, paused |-> 0,
      samples |-> [buf |-> NULL, off |-> 0],
      volume |-> SDL_MIX_MAXVOLUME, looping |-> 0, tag |-> -1, expire |-> 0,
      start_time |-> 0, fading |-> MIX_NO_FADING,
      fade_volume |-> SDL_MIX_MAXVOLUME, fade_volume_reset |-> SDL_MIX_MAXVOLUME,
      fade_length |-> 0, ticks_fade |-> 0 ]

NoChunk == [ st |-> "none", alen |-> 0, allocated |-> 0, volume |-> MIX_MAX_VOLUME ]

\* the history of a playback: the arguments of the play that started it, whether
\* the channel was idle then, how the channel was disturbed since, the bytes
\* mixed and the notifications made while it was not, and the ticks spent paused
NoRun == [ on |-> FALSE, loops |-> 0, len |-> 0, idle |-> FALSE, deadline |-> 0,
           by |-> {}, bytes |-> 0, done |-> 0, slept |-> 0 ]

Zero == [i \in Slots |-> 0]
NoBlend == [i \in Slots |-> << >>]
\* no conversion: samplesize, the length loaded, the length handed to the
\* converter, the size of the conversion buffer and the bytes copied into it
NoCvt == [on |-> FALSE, samplesize |-> 0, alen |-> 0, len |-> 0, size |-> 0, copied |-> 0]
None == [i \in Slots |-> -1]

Chans == 0..(num_channels - 1)

\* Mix_Playing(which) for one channel
PlayingCh(ch) == IF ch.playing > 0 \/ ch.looping # 0 THEN 1 ELSE 0


PlayingBit(c) == IF c \in Chans THEN PlayingCh(mix_channel[c]) ELSE 0

(* --------------------- helpers of the operations ---------------------- *)
\* checkchunkintegral: the frame width of the mix format
FrameWidth(m) == (IF m.format = 16 THEN 2 ELSE 1) * m.channels

\* checkchunkintegral: chunk->alen cut down to whole frames
Integral(alen, m) == alen - (alen % FrameWidth(m))

\* the volume stored without the cap at SDL_MIX_MAXVOLUME
VolumeChUncapped(ch, volume) ==
    IF volume >= 0 THEN [ch EXCEPT !.volume = volume] ELSE ch

\* Mix_Volume(which, volume) on one channel
VolumeCh(ch, volume) ==
    IF volume >= 0
    THEN [ch EXCEPT !.volume = Min(volume, SDL_MIX_MAXVOLUME)]
    ELSE ch

\* the halt that leaves the faded volume in place
HaltChKeepingVolume(ch) ==
    LET a == IF ch.playing # 0 THEN [ch EXCEPT !.playing = 0, !.looping = 0] ELSE ch
    IN  [a EXCEPT !.expire = 0, !.fading = MIX_NO_FADING]

\* Mix_HaltChannel(which) on one channel
HaltCh(ch) ==
    LET a == IF ch.playing # 0 THEN [ch EXCEPT !.playing = 0, !.looping = 0] ELSE ch
        b == [a EXCEPT !.expire = 0]
        c == IF b.fading # MIX_NO_FADING
             THEN [b EXCEPT !.volume = b.fade_volume_reset] ELSE b
    IN  [c EXCEPT !.fading = MIX_NO_FADING]

\* Mix_HaltChannel: the notifications it makes for one channel
HaltFires(ch) == IF ch.playing # 0 THEN 1 ELSE 0

\* the expiration test taking the deadline itself as passed
ExpiredAtDeadline(ch, ticks) == ch.expire > 0 /\ ch.expire <= ticks

\* mix_channels: the expiration test of one channel
Expired(ch, ticks) == ch.expire > 0 /\ ch.expire < ticks

\* what one channel's pass through mix_channels yields
Pass(ch, f, m, s, h) == [ch |-> ch, fired |-> f, mixed |-> m, seen |-> s, hazard |-> h]

\* the fade taken as over when its whole length has just elapsed
FadeOverAtEnd(ch, ticks) == ticks - ch.ticks_fade >= ch.fade_length

\* mix_channels: the test that a fade is over
FadeOver(ch, ticks) == ticks - ch.ticks_fade > ch.fade_length

\* mix_channels: the expiration and fade step of one unpaused channel
TimeStep(ch, ticks) ==
    IF Expired(ch, ticks)
    THEN Pass([ch EXCEPT !.playing = 0, !.looping = 0,
                         !.fading = MIX_NO_FADING, !.expire = 0], 1, 0, 0, {})
    ELSE IF ch.fading # MIX_NO_FADING
    THEN LET t == ticks - ch.ticks_fade IN
         IF FadeOver(ch, ticks)
         THEN LET v == VolumeCh(ch, ch.fade_volume_reset)
                  o == IF ch.fading = MIX_FADING_OUT
                       THEN [v EXCEPT !.playing = 0, !.looping = 0, !.expire = 0]
                       ELSE v
              IN  Pass([o EXCEPT !.fading = MIX_NO_FADING],
                       IF ch.fading = MIX_FADING_OUT THEN 1 ELSE 0, 0,
                       IF ch.fading = MIX_FADING_OUT THEN 0 ELSE -1, {})
         ELSE IF ch.fading = MIX_FADING_OUT
         THEN Pass(VolumeCh(ch, (ch.fade_volume * (ch.fade_length - t)) \div ch.fade_length),
                   0, 0, -1, {})
         ELSE Pass(VolumeCh(ch, (ch.fade_volume * t) \div ch.fade_length), 0, 0, -1, {})
    ELSE Pass(ch, 0, 0, -1, {})

\* the second while loop without the cap of one wrap at the chunk's length
RECURSIVE LoopWrapUncapped(_, _, _)
LoopWrapUncapped(s, len, alen) ==
    IF s.looping # 0 /\ s.index < len
    THEN LET remaining == len - s.index IN
         LoopWrapUncapped([ looping |-> IF s.looping > 0 THEN s.looping - 1 ELSE s.looping,
                            index   |-> s.index + remaining,
                            playing |-> alen - remaining,
                            off     |-> remaining,
                            mixed   |-> s.mixed + remaining ], len, alen)
    ELSE s

\* mix_channels: the second while loop, restarting a looping chunk until the
\* buffer is full; s = [looping, index, playing, off, mixed]
RECURSIVE LoopWrap(_, _, _)
LoopWrap(s, len, alen) ==
    IF s.looping # 0 /\ s.index < len
    THEN LET remaining == Min(len - s.index, alen) IN
         LoopWrap([ looping |-> IF s.looping > 0 THEN s.looping - 1 ELSE s.looping,
                    index   |-> s.index + remaining,
                    playing |-> alen - remaining,
                    off     |-> remaining,
                    mixed   |-> s.mixed + remaining ], len, alen)
    ELSE s

\* the notification made without the test that the channel's bytes are used up
EndFiresEarly(playing, looping) == looping = 0

\* mix_channels: the notification of the first while loop
EndFires(playing, looping) == playing = 0 /\ looping = 0

\* mix_channels: the reads a mixing step makes that no live storage backs
MixHazards(ch) ==
    (IF ch.chunk = NULL THEN {"null"} ELSE {})
    \cup (IF ch.chunk # NULL /\ chunk[ch.chunk].st # "live" THEN {"released"} ELSE {})
    \cup (IF ch.samples.buf # ch.chunk THEN {"cursor"} ELSE {})

\* mix_channels: the mixing step of one channel with playing > 0
MixStep(ch, len) ==
    IF MixHazards(ch) # {}
    THEN Pass(ch, 0, 0, -1, MixHazards(ch))
    ELSE
    LET alen    == chunk[ch.chunk].alen
        mixable == Min(ch.playing, len)
        p1      == ch.playing - mixable
        fire    == EndFires(p1, ch.looping)
        w       == LoopWrap([ looping |-> ch.looping, index |-> mixable, playing |-> p1,
                              off |-> ch.samples.off + mixable, mixed |-> mixable ],
                            len, alen)
        wrapped == w.index # mixable
        c1      == [ch EXCEPT !.playing = w.playing, !.looping = w.looping,
                              !.samples = [buf |-> IF wrapped THEN ch.chunk ELSE ch.samples.buf,
                                           off |-> w.off]]
        c2      == IF c1.playing = 0 /\ c1.looping # 0
                   THEN [c1 EXCEPT !.looping = IF @ > 0 THEN @ - 1 ELSE @,
                                   !.samples = [buf |-> ch.chunk, off |-> 0],
                                   !.playing = alen]
                   ELSE c1
    IN  Pass(c2, IF fire THEN 1 ELSE 0, w.mixed, IF fire THEN 0 ELSE -1,
             IF ch.samples.off + mixable > alen THEN {"bounds"} ELSE {})

\* mix_channels: the volume handed to SDL_MixAudio
EffVolume(ch) == (ch.volume * chunk[ch.chunk].volume) \div MIX_MAX_VOLUME

\* the slice taken from the start of the buffer instead of the cursor
FirstSliceFromStart(ch, len) ==
    [src |-> 0, n |-> Min(ch.playing, len), dst |-> 0, vol |-> EffVolume(ch)]

\* mix_channels: the SDL_MixAudio call of the first while loop: n bytes from
\* offset src of the chunk's buffer, blended at offset dst of the stream
FirstSlice(ch, len) ==
    [src |-> ch.samples.off, n |-> Min(ch.playing, len), dst |-> 0, vol |-> EffVolume(ch)]

\* mix_channels: the SDL_MixAudio calls of the second while loop
RECURSIVE WrapSlices(_, _, _, _, _)
WrapSlices(looping, index, len, alen, vol) ==
    IF looping # 0 /\ index < len
    THEN LET remaining == Min(len - index, alen) IN
         << [src |-> 0, n |-> remaining, dst |-> index, vol |-> vol] >>
         \o WrapSlices(IF looping > 0 THEN looping - 1 ELSE looping,
                       index + remaining, len, alen, vol)
    ELSE << >>

\* mix_channels: every SDL_MixAudio call made for one channel, in order
BlendCh(ch, len, ticks) ==
    IF ch.paused # 0 THEN << >>
    ELSE LET a == TimeStep(ch, ticks).ch IN
         IF a.playing > 0 /\ MixHazards(a) = {}
         THEN << FirstSlice(a, len) >>
              \o WrapSlices(a.looping, Min(a.playing, len), len,
                            chunk[a.chunk].alen, EffVolume(a))
         ELSE << >>

\* one channel's pass without the test of the pause stamp
MixChIgnoringPause(ch, len, ticks) ==
    LET a == TimeStep(ch, ticks) IN
    IF a.ch.playing > 0
    THEN LET b == MixStep(a.ch, len) IN
         Pass(b.ch, a.fired + b.fired, b.mixed, IF b.seen # -1 THEN b.seen ELSE a.seen, b.hazard)
    ELSE a

\* mix_channels: one channel's whole pass
MixCh(ch, len, ticks) ==
    IF ch.paused # 0
    THEN Pass(ch, 0, 0, -1, {})
    ELSE LET a == TimeStep(ch, ticks) IN
         IF a.ch.playing > 0
         THEN LET b == MixStep(a.ch, len) IN
              Pass(b.ch, a.fired + b.fired, b.mixed,
                   IF b.seen # -1 THEN b.seen ELSE a.seen, b.hazard)
         ELSE a


(* ------------------------------ ghosts -------------------------------- *)
\* no more bytes than a finite playback mixes are counted
BytesCap == MaxLen * (MaxLoops + 1) + 1

\* how an operation disturbs a playback: it pauses or resumes it, or it does
\* something else to it
Kind(op) == IF op \in {"pause", "resume"} THEN "paused" ELSE "other"

\* the ghosts after an operation that made f[i] notifications and mixed m[i]
\* bytes on channel i, and disturbed the playbacks of the channels in dirty; a
\* playback's bytes and notifications are counted while nothing but mix ticks
\* has touched it and it has no deadline, the bytes of a finite playback only
GhostAll(op, ret, f, m, s, h, dirty, b, cvt) ==
    /\ fired' = f
    /\ mixed' = m
    /\ blend' = b
    /\ wavecvt' = cvt
    /\ seen' = s
    /\ hazard' = h
    /\ lastOp' = [op |-> op, ret |-> ret]
    /\ run' = [i \in Slots |->
                 IF run[i].on /\ i \in dirty
                 THEN [run[i] EXCEPT !.by = @ \cup {Kind(op)}]
                 ELSE IF run[i].on /\ run[i].by = {} /\ run[i].deadline = 0
                 THEN [run[i] EXCEPT !.bytes = IF run[i].loops < 0 THEN @
                                               ELSE Min(BytesCap, @ + m[i]),
                                     !.done = Min(2, @ + f[i])]
                 ELSE run[i]]

\* the ghosts after an operation that converts no chunk
GhostB(op, ret, f, m, s, h, dirty, b) == GhostAll(op, ret, f, m, s, h, dirty, b, NoCvt)

\* the ghosts after an operation that calls SDL_MixAudio for no channel
Ghost(op, ret, f, m, s, h, dirty) == GhostB(op, ret, f, m, s, h, dirty, NoBlend)

\* a control operation: no byte is mixed, no storage is read
Control(op, ret, f, s, dirty) == Ghost(op, ret, f, Zero, s, {}, dirty)

Quiet(op, ret) == Control(op, ret, Zero, None, {})

(* ------------------------------ Init ---------------------------------- *)
\* the statics of mixer.c before the first call; the clock has started
Init ==
    /\ audio_opened = 0
    /\ num_decoders = 0
    /\ mixer = [format |-> 0, channels |-> 0]
    /\ bank_null = TRUE
    /\ num_channels = 0
    /\ mix_channel = [i \in {} |-> DefaultChannel]
    /\ reserved_channels = 0
    /\ chunk = [k \in Chunks |-> NoChunk]
    /\ now = 1
    /\ fired = Zero
    /\ mixed = Zero
    /\ blend = NoBlend
    /\ wavecvt = NoCvt
    /\ seen = None
    /\ hazard = {}
    /\ lastOp = [op |-> "init", ret |-> 0]
    /\ run = [i \in Slots |-> NoRun]
    /\ pc = "idle"
    /\ pcArg = [which |-> 0, chunk |-> NULL, loops |-> 0, ticks |-> 0]

(* ------------------------ session operations -------------------------- *)
\* Mix_HaltChannel(-1) over the whole bank
HaltAll == [i \in Chans |-> HaltCh(mix_channel[i])]
\* the notifications of a halt that stops at the first channel
HaltAllFiresFirst == [i \in Slots |-> IF i = 0 /\ i \in Chans
                                      THEN HaltFires(mix_channel[i]) ELSE 0]

HaltAllFires == [i \in Slots |-> IF i \in Chans THEN HaltFires(mix_channel[i]) ELSE 0]
HaltAllSeen == [i \in Slots |-> IF i \in Chans /\ HaltFires(mix_channel[i]) = 1
                                THEN PlayingCh(mix_channel[i]) ELSE -1]

\* the new bank taking over what the halted channels of the old one held
StaleBank == [i \in 0..(MIX_CHANNELS - 1) |->
                IF i \in Chans THEN HaltAll[i] ELSE DefaultChannel]

\* Mix_OpenAudio: the bank it allocates and clears
FreshBank == [i \in 0..(MIX_CHANNELS - 1) |-> DefaultChannel]

\* Mix_OpenAudio(frequency, format, nchannels, chunksize); ok: SDL_OpenAudio and
\* open_music succeed
Mix_OpenAudio(format, nchannels, ok) ==
    /\ pc = "idle"
    /\ audio_opened < MaxOpen
    /\ IF audio_opened > 0 /\ format = mixer.format /\ nchannels = mixer.channels
       THEN /\ audio_opened' = audio_opened + 1
            /\ UNCHANGED << num_decoders, mixer, bank_null, num_channels, mix_channel >>
            /\ Quiet("open", 0)
       ELSE /\ IF ok
               THEN /\ audio_opened' = 1
                    /\ num_decoders' = (IF audio_opened > 0 THEN 0 ELSE num_decoders) + 1
                    /\ mixer' = [format |-> format, channels |-> nchannels]
                    /\ bank_null' = FALSE
                    /\ num_channels' = MIX_CHANNELS
                    /\ mix_channel' = FreshBank
               ELSE /\ audio_opened' = 0
                    /\ num_decoders' = (IF audio_opened > 0 THEN 0 ELSE num_decoders)
                    /\ bank_null' = TRUE
                    /\ mix_channel' = IF audio_opened > 0 THEN HaltAll ELSE mix_channel
                    /\ UNCHANGED << mixer, num_channels >>
            /\ IF audio_opened > 0
               THEN Control("open", IF ok THEN 0 ELSE -1, HaltAllFires, HaltAllSeen, Slots)
               ELSE Quiet("open", IF ok THEN 0 ELSE -1)
    /\ UNCHANGED << reserved_channels, chunk, now, pc, pcArg >>

\* Mix_CloseAudio()
Mix_CloseAudio ==
    /\ pc = "idle"
    /\ IF audio_opened = 0
       THEN /\ UNCHANGED << num_decoders, audio_opened, bank_null, mix_channel >>
            /\ Quiet("close", 0)
       ELSE IF audio_opened = 1
       THEN /\ audio_opened' = 0
            /\ num_decoders' = 0
            /\ bank_null' = TRUE
            /\ mix_channel' = HaltAll
            /\ Control("close", 0, HaltAllFires, HaltAllSeen, Slots)
       ELSE /\ audio_opened' = audio_opened - 1
            /\ UNCHANGED << num_decoders, bank_null, mix_channel >>
            /\ Quiet("close", 0)
    /\ UNCHANGED << mixer, num_channels, reserved_channels, chunk, now, pc, pcArg >>

\* Mix_QuerySpec(frequency, format, channels): the open count is the result
Mix_QuerySpec ==
    /\ pc = "idle"
    /\ Quiet("query", audio_opened)
    /\ UNCHANGED << num_decoders, audio_opened, mixer, bank_null, num_channels, mix_channel,
                    reserved_channels, chunk, now, pc, pcArg >>

(* ----------------------------- chunks --------------------------------- *)
\* the chunk a load returns: the caller's next fresh Mix_Chunk
NextChunk == CHOOSE k \in Chunks : chunk[k].st = "none" /\ \A j \in 1..(k - 1) : chunk[j].st # "none"

\* a & ~m for a >= 0 and m >= 0: the bits of a that are not bits of m
RECURSIVE AndNot(_, _)
AndNot(a, m) ==
    IF a = 0 THEN 0
    ELSE 2 * AndNot(a \div 2, m \div 2) + (IF m % 2 = 1 THEN 0 ELSE a % 2)

\* Mix_LoadWAV_RW: the bytes of one frame of the file's own format
SampleSize(wavespec) == (wavespec.format \div 8) * wavespec.channels

\* Mix_LoadWAV_RW: whether the file's format needs converting
NeedsCvt(wavespec) ==
    \/ wavespec.format # mixer.format
    \/ wavespec.channels # mixer.channels
    \/ wavespec.freq # "mixer"

\* Mix_LoadWAV_RW: the length handed to the converter, the conversion buffer
\* and the copy into it, for a file of alen bytes and a converter that may grow
\* the data len_mult times
Converted(alen, wavespec, len_mult) ==
    LET samplesize == SampleSize(wavespec)
        len        == AndNot(alen, samplesize - 1)
    IN  [on |-> TRUE, samplesize |-> samplesize, alen |-> alen, len |-> len,
         size |-> len * len_mult, copied |-> alen]

\* Mix_LoadWAV_RW(src, freesrc) of a recognised file whose data SDL_LoadWAV_RW
\* reports as alen bytes of the format wavespec; cvt_ok: SDL_BuildAudioCVT and
\* SDL_ConvertAudio succeed; len_mult and len_cvt are the growth bound and the
\* length of the result the converter reports.  The chunk owns its buffer.
Mix_LoadWAV_RW(alen, wavespec, cvt_ok, len_mult, len_cvt) ==
    /\ pc = "idle"
    /\ audio_opened > 0
    /\ \E k \in Chunks : chunk[k].st = "none"
    /\ IF ~NeedsCvt(wavespec)
       THEN /\ chunk' = [chunk EXCEPT ![NextChunk] =
                          [st |-> "live", alen |-> alen, allocated |-> 1,
                           volume |-> MIX_MAX_VOLUME]]
            /\ Quiet("load", NextChunk)
       ELSE IF ~cvt_ok
       THEN /\ UNCHANGED chunk
            /\ Quiet("load", NULL)
       ELSE LET cvt == Converted(alen, wavespec, len_mult) IN
            /\ len_cvt <= cvt.size
            /\ chunk' = [chunk EXCEPT ![NextChunk] =
                          [st |-> "live", alen |-> len_cvt, allocated |-> 1,
                           volume |-> MIX_MAX_VOLUME]]
            /\ GhostAll("load", NextChunk, Zero, Zero, None,
                        IF cvt.copied > cvt.size THEN {"overrun"} ELSE {}, {},
                        NoBlend, cvt)
    /\ UNCHANGED << num_decoders, audio_opened, mixer, bank_null, num_channels, mix_channel,
                    reserved_channels, now, pc, pcArg >>

\* Mix_QuickLoad_WAV(mem) over a data block of alen bytes, which the chunk borrows
Mix_QuickLoad_WAV(alen) ==
    /\ pc = "idle"
    /\ audio_opened > 0
    /\ \E k \in Chunks : chunk[k].st = "none"
    /\ chunk' = [chunk EXCEPT ![NextChunk] =
                   [st |-> "live", alen |-> alen, allocated |-> 0, volume |-> MIX_MAX_VOLUME]]
    /\ Quiet("quickload", NextChunk)
    /\ UNCHANGED << num_decoders, audio_opened, mixer, bank_null, num_channels, mix_channel,
                    reserved_channels, now, pc, pcArg >>

\* the scan for the chunk left at the first channel that holds it
FreeStopsFirst(k) ==
    IF bank_null THEN {}
    ELSE {i \in Chans : mix_channel[i].chunk = k
                          /\ \A j \in Chans : mix_channel[j].chunk = k => i <= j}

\* Mix_FreeChunk: the channels it stops
FreeStops(k) == IF bank_null THEN {} ELSE {i \in Chans : mix_channel[i].chunk = k}

\* Mix_FreeChunk(chunk) of a live chunk
Mix_FreeChunk(k) ==
    /\ pc = "idle"
    /\ chunk[k].st = "live"
    /\ mix_channel' = [i \in Chans |->
                         IF i \in FreeStops(k)
                         THEN [mix_channel[i] EXCEPT !.playing = 0, !.looping = 0]
                         ELSE mix_channel[i]]
    /\ chunk' = [chunk EXCEPT ![k].st = "released"]
    /\ Control("free", 0, Zero, None, FreeStops(k))
    /\ UNCHANGED << num_decoders, audio_opened, mixer, bank_null, num_channels, reserved_channels,
                    now, pc, pcArg >>


(* ------------------------- playback control --------------------------- *)
\* Mix_PlayChannelTimed: the scan for the first free channel, from
\* reserved_channels up; the value of i when the for loop ends
FirstFree ==
    LET free == {i \in Chans : i >= reserved_channels /\ mix_channel[i].playing <= 0}
    IN  IF free # {}
        THEN CHOOSE i \in free : \A j \in free : i <= j
        ELSE IF reserved_channels > num_channels THEN reserved_channels ELSE num_channels

\* Mix_PlayChannelTimed: the channel chosen for a request on which
Target(which) ==
    IF which = -1
    THEN (IF FirstFree = num_channels THEN -1 ELSE FirstFree)
    ELSE which

\* Mix_PlayChannelTimed: with reserved_channels below 0 the scan starts in front
\* of the bank and stops at the first index there whose storage reads as not
\* playing, or goes on into the bank
ScanHazard(which) == IF which = -1 /\ reserved_channels < 0 THEN {"oob"} ELSE {}

Targets(which) ==
    {Target(which)}
    \cup (IF which = -1 /\ reserved_channels < 0 THEN reserved_channels..(-1) ELSE {})

\* Mix_PlayChannelTimed: the deadline of a duration limit; Mix_ExpireChannel likewise
Deadline(ticks) == IF ticks > 0 THEN now + ticks ELSE 0

\* the channel queued without clearing its pause stamp
QueuedStillPaused(ch, k, alen, loops, ticks) ==
    [ch EXCEPT !.samples = [buf |-> k, off |-> 0],
               !.playing = alen,
               !.looping = loops,
               !.chunk = k,
               !.fading = MIX_NO_FADING,
               !.start_time = now,
               !.expire = Deadline(ticks)]

\* the channel queued with the chunk's length as it was before checkchunkintegral
QueuedUncut(ch, k, alen, loops, ticks) ==
    [ch EXCEPT !.samples = [buf |-> k, off |-> 0],
               !.playing = chunk[k].alen,
               !.looping = loops,
               !.chunk = k,
               !.paused = 0,
               !.fading = MIX_NO_FADING,
               !.start_time = now,
               !.expire = Deadline(ticks)]

\* the channel queued as a fade-in would queue it
QueuedFadingIn(ch, k, alen, loops, ticks) ==
    [ch EXCEPT !.samples = [buf |-> k, off |-> 0],
               !.playing = alen,
               !.looping = loops,
               !.chunk = k,
               !.paused = 0,
               !.fading = MIX_FADING_IN,
               !.start_time = now,
               !.expire = Deadline(ticks)]

\* Mix_PlayChannelTimed: the channel after the chunk k of alen bytes is queued on it
Queued(ch, k, alen, loops, ticks) ==
    [ch EXCEPT !.samples = [buf |-> k, off |-> 0],
               !.playing = alen,
               !.looping = loops,
               !.chunk = k,
               !.paused = 0,
               !.fading = MIX_NO_FADING,
               !.start_time = now,
               !.expire = Deadline(ticks)]

\* Mix_PlayChannelTimed: whether the previous content is reported as done
OverwriteFires(ch) == PlayingCh(ch) = 1

\* Mix_PlayChannelTimed: the value returned for the chosen channel
PlayResult(which) == which

\* Mix_PlayChannelTimed(which, chunk, loops, ticks); k = NULL is the null chunk
Mix_PlayChannelTimed(which, k, loops, ticks) ==
    /\ pc = "idle"
    /\ audio_opened > 0
    /\ k # NULL => chunk[k].st = "live"
    /\ IF k = NULL
       THEN /\ UNCHANGED << chunk, mix_channel >>
            /\ Quiet("play", -1)
       ELSE LET alen == Integral(chunk[k].alen, mixer) IN
                /\ chunk' = [chunk EXCEPT ![k].alen = alen]
                /\ IF alen = 0
                   THEN /\ UNCHANGED mix_channel
                        /\ Quiet("play", -1)
                   ELSE \E w \in Targets(which) :
                        IF w \in Chans
                   THEN /\ mix_channel' =
                             [mix_channel EXCEPT ![w] = Queued(@, k, alen, loops, ticks)]
                        /\ fired' = [Zero EXCEPT ![w] =
                                       IF OverwriteFires(mix_channel[w]) THEN 1 ELSE 0]
                        /\ seen' = [None EXCEPT ![w] =
                                       IF OverwriteFires(mix_channel[w])
                                       THEN PlayingCh(mix_channel[w]) ELSE -1]
                        /\ mixed' = Zero
                        /\ blend' = NoBlend
                        /\ wavecvt' = NoCvt
                        /\ hazard' = ScanHazard(which)
                        /\ lastOp' = [op |-> "play", ret |-> PlayResult(w)]
                        /\ run' = [run EXCEPT ![w] =
                                     [ on |-> TRUE, loops |-> loops, len |-> alen,
                                       idle |-> PlayingCh(mix_channel[w]) = 0,
                                       deadline |-> Deadline(ticks), by |-> {},
                                       bytes |-> 0, done |-> 0, slept |-> 0 ]]
                   ELSE /\ UNCHANGED mix_channel
                        /\ Ghost("play", PlayResult(w), Zero, Zero, None,
                                 ScanHazard(which), {})
    /\ UNCHANGED << num_decoders, audio_opened, mixer, bank_null, num_channels, reserved_channels,
                    now, pc, pcArg >>

\* the channels an operation called on which acts on
Aimed(which) == IF which = -1 THEN Chans ELSE {which} \cap Chans

\* an index the test else if ( which < num_channels ) lets through although it
\* is below the bank: the operation then reads and writes mix_channel[which],
\* storage in front of the bank.  The step is marked by the hazard "oob"; what
\* the stray write hits is not followed.
Stray(which) == which # -1 /\ which < num_channels /\ which \notin Chans

\* two of the values a read outside the bank can yield
Garbage == {0, SDL_MIX_MAXVOLUME + 1}

\* the ghosts after a control operation called on the index which
ControlAt(which, op, ret, f, s, dirty) ==
    Ghost(op, ret, f, Zero, s, IF Stray(which) THEN {"oob"} ELSE {}, dirty)

\* Mix_ExpireChannel(which, ticks)
Mix_ExpireChannel(which, ticks) ==
    /\ pc = "idle"
    /\ audio_opened > 0
    /\ mix_channel' = [i \in Chans |->
                         IF i \in Aimed(which)
                         THEN [mix_channel[i] EXCEPT !.expire = Deadline(ticks)]
                         ELSE mix_channel[i]]
    /\ ControlAt(which, "expire",
                 IF Stray(which) THEN 1 ELSE Cardinality(Aimed(which)),
                 Zero, None, Aimed(which))
    /\ UNCHANGED << num_decoders, audio_opened, mixer, bank_null, num_channels, reserved_channels,
                    chunk, now, pc, pcArg >>

\* Mix_Volume(which, volume): the value returned
VolumeResult(which) ==
    IF which = -1
    THEN LET RECURSIVE Sum(_)
             Sum(n) == IF n = 0 THEN 0 ELSE mix_channel[n - 1].volume + Sum(n - 1)
         IN  Sum(num_channels) \div num_channels
    ELSE IF which \in Chans THEN mix_channel[which].volume ELSE 0

\* Mix_Volume(which, volume)
Mix_Volume(which, volume) ==
    /\ pc = "idle"
    /\ audio_opened > 0
    /\ IF which = -1 /\ num_channels = 0
       THEN /\ UNCHANGED mix_channel
            /\ Ghost("volume", 0, Zero, Zero, None, {"div0"}, {})
       ELSE /\ mix_channel' = [i \in Chans |->
                                 IF i \in Aimed(which)
                                 THEN VolumeCh(mix_channel[i], volume)
                                 ELSE mix_channel[i]]
            /\ \E g \in (IF Stray(which) THEN Garbage ELSE {VolumeResult(which)}) :
                   ControlAt(which, "volume", g, Zero, None, {})
    /\ UNCHANGED << num_decoders, audio_opened, mixer, bank_null, num_channels, reserved_channels,
                    chunk, now, pc, pcArg >>

\* Mix_HaltChannel(which)
Mix_HaltChannel(which) ==
    /\ pc = "idle"
    /\ audio_opened > 0
    /\ mix_channel' = [i \in Chans |->
                         IF i \in Aimed(which) THEN HaltCh(mix_channel[i])
                         ELSE mix_channel[i]]
    /\ ControlAt(which, "halt", 0,
                 [i \in Slots |-> IF i \in Aimed(which) THEN HaltFires(mix_channel[i]) ELSE 0],
                 [i \in Slots |-> IF i \in Aimed(which) /\ HaltFires(mix_channel[i]) = 1
                                  THEN PlayingCh(mix_channel[i]) ELSE -1],
                 Aimed(which))
    /\ UNCHANGED << num_decoders, audio_opened, mixer, bank_null, num_channels, reserved_channels,
                    chunk, now, pc, pcArg >>

\* Mix_Pause(which) on one channel
PauseCh(ch) == IF ch.playing > 0 THEN [ch EXCEPT !.paused = now] ELSE ch

\* Mix_Pause(which)
Mix_Pause(which) ==
    /\ pc = "idle"
    /\ audio_opened > 0
    /\ mix_channel' = [i \in Chans |->
                         IF i \in Aimed(which) THEN PauseCh(mix_channel[i])
                         ELSE mix_channel[i]]
    /\ ControlAt(which, "pause", 0, Zero, None, Aimed(which))
    /\ UNCHANGED << num_decoders, audio_opened, mixer, bank_null, num_channels, reserved_channels,
                    chunk, now, pc, pcArg >>

\* Mix_Resume(which) on one channel (the clock stays far below the 2^32 ms at
\* which the uint32_t deadline would wrap)
ResumeCh(ch) ==
    IF ch.playing > 0
    THEN [ch EXCEPT !.expire = IF @ > 0 THEN @ + (now - ch.paused) ELSE @,
                    !.paused = 0]
    ELSE ch

\* the furthest deadline followed: the latest play with the longest limit (a
\* resume of a channel that is not paused adds the whole clock value, every time)
DeadlineCap == MaxTick + MaxMs

\* Mix_Resume(which)
Mix_Resume(which) ==
    /\ pc = "idle"
    /\ audio_opened > 0
    /\ \A i \in Aimed(which) : ResumeCh(mix_channel[i]).expire <= DeadlineCap
    /\ mix_channel' = [i \in Chans |->
                         IF i \in Aimed(which) THEN ResumeCh(mix_channel[i])
                         ELSE mix_channel[i]]
    /\ ControlAt(which, "resume", 0, Zero, None, Aimed(which))
    /\ UNCHANGED << num_decoders, audio_opened, mixer, bank_null, num_channels, reserved_channels,
                    chunk, now, pc, pcArg >>


(* ----------------------------- queries -------------------------------- *)
\* Mix_Playing(which): the count of channels with playing > 0 or looping # 0
Mix_Playing(which) ==
    /\ pc = "idle"
    /\ audio_opened > 0
    /\ \E g \in (IF Stray(which) THEN {0, 1}
                 ELSE {Cardinality({i \in Aimed(which) : PlayingCh(mix_channel[i]) = 1})}) :
           ControlAt(which, "playing", g, Zero, None, {})
    /\ UNCHANGED << num_decoders, audio_opened, mixer, bank_null, num_channels, mix_channel,
                    reserved_channels, chunk, now, pc, pcArg >>

\* Mix_Paused(which) for one channel
PausedCh(ch) == IF ch.paused # 0 THEN 1 ELSE 0

\* Mix_Paused(which): every negative index asks for the count over the bank
Mix_Paused(which) ==
    /\ pc = "idle"
    /\ audio_opened > 0
    /\ Quiet("paused",
             IF which < 0
             THEN Cardinality({i \in Chans : PausedCh(mix_channel[i]) = 1})
             ELSE IF which < num_channels THEN PausedCh(mix_channel[which]) ELSE 0)
    /\ UNCHANGED << num_decoders, audio_opened, mixer, bank_null, num_channels, mix_channel,
                    reserved_channels, chunk, now, pc, pcArg >>

\* Mix_GetChunk(channel): the chunk pointer the channel holds
GetChunk(channel) == IF channel >= 0 /\ channel < num_channels
                     THEN mix_channel[channel].chunk ELSE NULL

\* Mix_GetChunk(channel)
Mix_GetChunk(channel) ==
    /\ pc = "idle"
    /\ audio_opened > 0
    /\ Quiet("getchunk", GetChunk(channel))
    /\ UNCHANGED << num_decoders, audio_opened, mixer, bank_null, num_channels, mix_channel,
                    reserved_channels, chunk, now, pc, pcArg >>

(* --------------------------- the bank --------------------------------- *)
\* the halting loop started one channel too high
DroppedAbove(numchans) == {i \in Chans : i > numchans}

\* Mix_AllocateChannels: the channels it halts before the bank shrinks
Dropped(numchans) == {i \in Chans : i >= numchans}

\* a bank that is only ever grown
ResizedUp(numchans) ==
    [i \in 0..((IF numchans > num_channels THEN numchans ELSE num_channels) - 1) |->
        IF i \in Chans THEN mix_channel[i] ELSE DefaultChannel]

\* Mix_AllocateChannels: the bank after realloc and the initialising loop
Resized(numchans) ==
    [i \in 0..(numchans - 1) |-> IF i \in Chans THEN mix_channel[i] ELSE DefaultChannel]

\* Mix_AllocateChannels(numchans)
Mix_AllocateChannels(numchans) ==
    /\ pc = "idle"
    /\ audio_opened > 0
    /\ IF numchans < 0 \/ numchans = num_channels
       THEN /\ UNCHANGED << num_channels, mix_channel >>
            /\ Quiet("allocate", num_channels)
       ELSE /\ num_channels' = numchans
            /\ mix_channel' = Resized(numchans)
            /\ Control("allocate", numchans,
                       [i \in Slots |-> IF i \in Dropped(numchans)
                                        THEN HaltFires(mix_channel[i]) ELSE 0],
                       [i \in Slots |-> IF i \in Dropped(numchans)
                                           /\ HaltFires(mix_channel[i]) = 1
                                        THEN PlayingCh(mix_channel[i]) ELSE -1],
                       Dropped(numchans))
    /\ UNCHANGED << num_decoders, audio_opened, mixer, bank_null, reserved_channels, chunk, now,
                    pc, pcArg >>

\* Mix_ReserveChannels(num): the count it stores and returns
Reserved(num) == IF num > num_channels THEN num_channels ELSE num

\* Mix_ReserveChannels(num)
Mix_ReserveChannels(num) ==
    /\ pc = "idle"
    /\ reserved_channels' = Reserved(num)
    /\ Quiet("reserve", Reserved(num))
    /\ UNCHANGED << num_decoders, audio_opened, mixer, bank_null, num_channels, mix_channel,
                    chunk, now, pc, pcArg >>

(* ----------------------------- groups --------------------------------- *)
\* Mix_GroupChannel(which, tag); the test which > num_channels lets the index
\* num_channels through, one element past the bank
Mix_GroupChannel(which, tag) ==
    /\ pc = "idle"
    /\ audio_opened > 0
    /\ IF which < 0 \/ which > num_channels
       THEN /\ UNCHANGED mix_channel
            /\ Quiet("group", 0)
       ELSE IF which = num_channels
       THEN /\ UNCHANGED mix_channel
            /\ Ghost("group", 1, Zero, Zero, None, {"oob"}, {})
       ELSE /\ mix_channel' = [mix_channel EXCEPT ![which].tag = tag]
            /\ Quiet("group", 1)
    /\ UNCHANGED << num_decoders, audio_opened, mixer, bank_null, num_channels,
                    reserved_channels, chunk, now, pc, pcArg >>

\* Mix_GroupChannels(from, to, tag): Mix_GroupChannel on every index from..to
Mix_GroupChannels(from, to, tag) ==
    /\ pc = "idle"
    /\ audio_opened > 0
    /\ mix_channel' = [i \in Chans |->
                         IF i \in from..to THEN [mix_channel[i] EXCEPT !.tag = tag]
                         ELSE mix_channel[i]]
    /\ Ghost("groups", Cardinality({i \in from..to : i >= 0 /\ i <= num_channels}),
             Zero, Zero, None,
             IF num_channels \in from..to THEN {"oob"} ELSE {}, {})
    /\ UNCHANGED << num_decoders, audio_opened, mixer, bank_null, num_channels,
                    reserved_channels, chunk, now, pc, pcArg >>

\* the scan taking a channel whatever is left of its playback
RECURSIVE OldestOfAny(_, _, _, _)
OldestOfAny(i, chan, mintime, tag) ==
    IF i >= num_channels THEN chan
    ELSE IF (mix_channel[i].tag = tag \/ tag = -1)
            /\ mix_channel[i].start_time <= mintime
         THEN OldestOfAny(i + 1, i, mix_channel[i].start_time, tag)
         ELSE OldestOfAny(i + 1, chan, mintime, tag)

\* Mix_GroupOldest: the for loop from channel i on, with chan and mintime so far
RECURSIVE OldestScan(_, _, _, _)
OldestScan(i, chan, mintime, tag) ==
    IF i >= num_channels THEN chan
    ELSE IF (mix_channel[i].tag = tag \/ tag = -1)
            /\ mix_channel[i].playing > 0
            /\ mix_channel[i].start_time <= mintime
         THEN OldestScan(i + 1, i, mix_channel[i].start_time, tag)
         ELSE OldestScan(i + 1, chan, mintime, tag)

\* Mix_GroupOldest(tag)
Mix_GroupOldest(tag) ==
    /\ pc = "idle"
    /\ audio_opened > 0
    /\ Quiet("oldest", OldestScan(0, -1, now, tag))
    /\ UNCHANGED << num_decoders, audio_opened, mixer, bank_null, num_channels, mix_channel,
                    reserved_channels, chunk, now, pc, pcArg >>

(* ------------------------------ fades --------------------------------- *)
\* The fade request is not part of mixer.c; it is modelled after the entry
\* fade(channel, direction, target_volume, duration_ms) of the specification:
\* it records the direction, the duration, the start tick and the volume
\* before the fade on a channel that is playing.  mix_channels (TimeStep) and
\* Mix_HaltChannel read what it records.
FadeCh(ch, dir, ms) ==
    IF ch.playing > 0
    THEN [ch EXCEPT !.fading = dir,
                    !.fade_volume = ch.volume,
                    !.fade_volume_reset =
                        IF ch.fading = MIX_NO_FADING THEN ch.volume ELSE @,
                    !.fade_length = ms,
                    !.ticks_fade = now]
    ELSE ch

Fade(which, dir, ms) ==
    /\ pc = "idle"
    /\ audio_opened > 0
    /\ ms > 0
    /\ mix_channel' = [i \in Chans |->
                         IF i \in Aimed(which) THEN FadeCh(mix_channel[i], dir, ms)
                         ELSE mix_channel[i]]
    /\ Control("fade", 0, Zero, None, Aimed(which))
    /\ UNCHANGED << num_decoders, audio_opened, mixer, bank_null, num_channels,
                    reserved_channels, chunk, now, pc, pcArg >>

(* ------------------------- the mixing callback ------------------------ *)
\* mix_channels(udata, stream, len): every channel's pass, in index order; no
\* channel's pass reads or writes another channel
Passes(len) == [i \in Chans |-> MixCh(mix_channel[i], len, now)]

mix_channels(len) ==
    /\ audio_opened > 0
    /\ mix_channel' = [i \in Chans |-> Passes(len)[i].ch]
    /\ GhostB("mix", 0,
              [i \in Slots |-> IF i \in Chans THEN Passes(len)[i].fired ELSE 0],
              [i \in Slots |-> IF i \in Chans THEN Passes(len)[i].mixed ELSE 0],
              [i \in Slots |-> IF i \in Chans THEN Passes(len)[i].seen ELSE -1],
              UNION {Passes(len)[i].hazard : i \in Chans},
              {},
              [i \in Slots |-> IF i \in Chans THEN BlendCh(mix_channel[i], len, now)
                               ELSE << >>])
    /\ UNCHANGED << num_decoders, audio_opened, mixer, bank_null, num_channels, reserved_channels,
                    chunk, now, pc, pcArg >>

\* LR_GetTicks() advances by a millisecond
Tick ==
    /\ now < MaxTick
    /\ now' = now + 1
    /\ fired' = Zero
    /\ mixed' = Zero
    /\ blend' = NoBlend
    /\ wavecvt' = NoCvt
    /\ seen' = None
    /\ hazard' = {}
    /\ lastOp' = [op |-> "tick", ret |-> 0]
    /\ run' = [i \in Slots |->
                 IF run[i].on /\ i \in Chans /\ mix_channel[i].paused # 0
                    /\ mix_channel[i].playing > 0
                 THEN [run[i] EXCEPT !.slept = @ + 1]
                 ELSE run[i]]
    /\ UNCHANGED << num_decoders, audio_opened, mixer, bank_null, num_channels, mix_channel,
                    reserved_channels, chunk, pc, pcArg >>

(* --------------------------- specification ---------------------------- *)
Formats == {[format |-> 8, channels |-> 1], [format |-> 16, channels |-> 1]}
Lens == 1..MaxLen
\* the formats of the files loaded: 8 and 16 bits, one to three channels, at the
\* mixer's rate or another
WaveSpecs == [format : {8, 16}, channels : 1..3, freq : {"mixer", "other"}]
Bufs == 1..MaxBuf
LoopCounts == (-1)..MaxLoops
Durations == (-1)..MaxMs
Whiches == (-1)..MaxChannels
Volumes == {-1, 64, SDL_MIX_MAXVOLUME + 1}
Tags == (-1)..1

Next ==
    \/ \E m \in Formats, ok \in BOOLEAN : Mix_OpenAudio(m.format, m.channels, ok)
    \/ Mix_CloseAudio
    \/ \E alen \in Lens, wavespec \in WaveSpecs, cvt_ok \in BOOLEAN, len_mult \in {1, 2},
          len_cvt \in 0..MaxLen : Mix_LoadWAV_RW(alen, wavespec, cvt_ok, len_mult, len_cvt)
    \/ \E alen \in Lens : Mix_QuickLoad_WAV(alen)
    \/ \E k \in Chunks : Mix_FreeChunk(k)
    \/ \E which \in Whiches \cup {-2}, k \in Chunks \cup {NULL}, loops \in LoopCounts,
          ticks \in Durations : Mix_PlayChannelTimed(which, k, loops, ticks)
    \/ \E which \in Whiches \cup {-2}, ticks \in Durations : Mix_ExpireChannel(which, ticks)
    \/ \E which \in Whiches \cup {-2}, volume \in Volumes : Mix_Volume(which, volume)
    \/ \E which \in Whiches \cup {-2} : Mix_HaltChannel(which)
    \/ \E which \in Whiches \cup {-2} : Mix_Pause(which)
    \/ \E which \in Whiches \cup {-2} : Mix_Resume(which)
    \/ \E numchans \in (-1)..MaxChannels : Mix_AllocateChannels(numchans)
    \/ \E num \in (-1)..(MaxChannels + 1) : Mix_ReserveChannels(num)
    \/ \E which \in Whiches, tag \in Tags : Mix_GroupChannel(which, tag)
    \/ \E from \in Whiches, to \in Whiches, tag \in Tags : Mix_GroupChannels(from, to, tag)
    \/ \E tag \in Tags : Mix_GroupOldest(tag)
    \/ \E which \in Whiches \cup {-2} : Mix_Playing(which)
    \/ \E which \in Whiches \cup {-2} : Mix_Paused(which)
    \/ \E channel \in Whiches \cup {-2} : Mix_GetChunk(channel)
    \/ Mix_QuerySpec
    \/ \E len \in Bufs : mix_channels(len)
    \/ Tick

Spec == Init /\ [][Next]_vars


(* ------------- Mix_PlayChannelTimed, statement by statement ----------- *)
(* The source takes no lock around lines 644-657 (the comment at line 628   *)
(* is all that is left of one), so the device's callback can run between    *)
(* any two of its assignments.                                              *)

StepGhost(op, f, s) ==
    /\ fired' = f
    /\ mixed' = Zero
    /\ blend' = NoBlend
    /\ wavecvt' = NoCvt
    /\ seen' = s
    /\ hazard' = {}
    /\ lastOp' = [op |-> op, ret |-> 0]

\* lines 618-646: the checks, the choice of the channel, the read of the clock
PlayBegin(which, k, loops, ticks) ==
    /\ pc = "idle"
    /\ audio_opened > 0
    /\ k # NULL /\ chunk[k].st = "live"
    /\ Integral(chunk[k].alen, mixer) # 0
    /\ Target(which) \in Chans
    /\ chunk' = [chunk EXCEPT ![k].alen = Integral(chunk[k].alen, mixer)]
    /\ pc' = "L647"
    /\ pcArg' = [which |-> Target(which), chunk |-> k, loops |-> loops, ticks |-> ticks]
    /\ StepGhost("play:begin", Zero, None)
    /\ UNCHANGED << num_decoders, audio_opened, mixer, bank_null, num_channels, mix_channel,
                    reserved_channels, now, run >>

\* lines 647-656, one statement a step
PlayStep ==
    /\ pc # "idle"
    /\ LET w  == pcArg.which
           ch == mix_channel[w]
       IN  CASE pc = "L647" ->
                  /\ mix_channel' = mix_channel
                  /\ StepGhost("play:647",
                               [Zero EXCEPT ![w] = IF OverwriteFires(ch) THEN 1 ELSE 0],
                               [None EXCEPT ![w] = IF OverwriteFires(ch) THEN 1 ELSE -1])
                  /\ pc' = "L649"
             [] pc = "L649" ->
                  /\ mix_channel' = [mix_channel EXCEPT
                                        ![w].samples = [buf |-> pcArg.chunk, off |-> 0]]
                  /\ StepGhost("play:649", Zero, None)
                  /\ pc' = "L650"
             [] pc = "L650" ->
                  /\ mix_channel' = [mix_channel EXCEPT
                                        ![w].playing = chunk[pcArg.chunk].alen]
                  /\ StepGhost("play:650", Zero, None)
                  /\ pc' = "L651"
             [] pc = "L651" ->
                  /\ mix_channel' = [mix_channel EXCEPT ![w].looping = pcArg.loops]
                  /\ StepGhost("play:651", Zero, None)
                  /\ pc' = "L652"
             [] pc = "L652" ->
                  /\ mix_channel' = [mix_channel EXCEPT ![w].chunk = pcArg.chunk]
                  /\ StepGhost("play:652", Zero, None)
                  /\ pc' = "L653"
             [] pc = "L653" ->
                  /\ mix_channel' = [mix_channel EXCEPT
                                        ![w].paused = 0,
                                        ![w].fading = MIX_NO_FADING,
                                        ![w].start_time = now,
                                        ![w].expire = Deadline(pcArg.ticks)]
                  /\ StepGhost("play:653", Zero, None)
                  /\ pc' = "idle"
    /\ run' = IF pc = "L653"
              THEN [run EXCEPT ![pcArg.which] =
                      [ on |-> TRUE, loops |-> pcArg.loops,
                        len |-> chunk[pcArg.chunk].alen, idle |-> FALSE,
                        deadline |-> Deadline(pcArg.ticks), by |-> {"other"},
                        bytes |-> 0, done |-> 0, slept |-> 0 ]]
              ELSE run
    /\ UNCHANGED << num_decoders, audio_opened, mixer, bank_null, num_channels, reserved_channels,
                    chunk, now, pcArg >>

(* ---------------------------- scenarios ------------------------------- *)
(* Each scenario takes its steps from Next with narrower arguments, so its  *)
(* behaviours are behaviours of Spec.                                       *)

\* the first open of the session
FirstOpen(formats) ==
    \E m \in formats : audio_opened = 0 /\ Mix_OpenAudio(m.format, m.channels, TRUE)

\* the caller loads at most n chunks
LoadUpTo(n, lens) ==
    \E alen \in lens : chunk[n].st = "none" /\ Mix_QuickLoad_WAV(alen)

\* playing and mixing: plays of every length and loop count, buffers of every size
NextMix ==
    \/ FirstOpen(Formats)
    \/ LoadUpTo(1, Lens)
    \/ \E which \in {-1, 0, MIX_CHANNELS}, k \in {NULL, 1}, loops \in LoopCounts :
          Mix_PlayChannelTimed(which, k, loops, 0)
    \/ \E len \in Bufs : mix_channels(len)

SpecMix == Init /\ [][NextMix]_vars


\* deadlines, pausing and the clock, on channel 0 with one chunk
NextTime ==
    \/ FirstOpen({[format |-> 16, channels |-> 1]})
    \/ LoadUpTo(1, {MaxLen})
    \/ \E loops \in {0, 1}, ticks \in 0..MaxMs : Mix_PlayChannelTimed(0, 1, loops, ticks)
    \/ \E ticks \in Durations : Mix_ExpireChannel(0, ticks)
    \/ Mix_Pause(0)
    \/ Mix_Resume(0)
    \/ \E len \in {1, MaxBuf} : mix_channels(len)
    \/ Tick

SpecTime == Init /\ [][NextTime]_vars

\* chunks freed under playing, looping, paused and timed channels
NextFree ==
    \/ FirstOpen({[format |-> 8, channels |-> 1]})
    \/ LoadUpTo(2, {2})
    \/ \E which \in {0, 1}, k \in Chunks, loops \in {0, -1}, ticks \in {0, 1} :
          Mix_PlayChannelTimed(which, k, loops, ticks)
    \/ Mix_Pause(0)
    \/ \E k \in Chunks : Mix_FreeChunk(k)
    \/ mix_channels(1)

SpecFree == Init /\ [][NextFree]_vars

\* the device's callback running between the statements of a play
NextRace ==
    \/ FirstOpen({[format |-> 8, channels |-> 1]})
    \/ LoadUpTo(2, {2})
    \/ \E k \in Chunks, loops \in {0, 1} : PlayBegin(0, k, loops, 0)
    \/ PlayStep
    \/ mix_channels(1)

SpecRace == Init /\ [][NextRace]_vars

\* the bank resized and reserved under playing channels
NextBank ==
    \/ FirstOpen({[format |-> 8, channels |-> 1]})
    \/ LoadUpTo(1, {1})
    \/ \E numchans \in (-1)..MaxChannels : Mix_AllocateChannels(numchans)
    \/ \E num \in (-1)..MaxChannels : Mix_ReserveChannels(num)
    \/ \E which \in (-1)..(MaxChannels - 1), loops \in {0, -1} :
          Mix_PlayChannelTimed(which, 1, loops, 0)
    \/ Mix_Pause(0)
    \/ mix_channels(1)

SpecBank == Init /\ [][NextBank]_vars

\* a fade requested of channel 0 while it is not fading
FirstFade(dir, ms) ==
    audio_opened > 0 /\ mix_channel[0].fading = MIX_NO_FADING /\ Fade(0, dir, ms)

\* fades and volumes on channel 0; the fade request is the specification's
NextFade ==
    \/ FirstOpen({[format |-> 8, channels |-> 1]})
    \/ LoadUpTo(1, {2})
    \/ \E loops \in {0, -1}, ticks \in {0, 1} : Mix_PlayChannelTimed(0, 1, loops, ticks)
    \/ \E volume \in Volumes : Mix_Volume(0, volume)
    \/ \E dir \in {MIX_FADING_OUT, MIX_FADING_IN}, ms \in 1..MaxMs : FirstFade(dir, ms)
    \/ mix_channels(1)
    \/ Tick

SpecFade == Init /\ [][NextFade]_vars

\* halts of channels that play, loop, are paused, have a deadline or fade out
NextHalt ==
    \/ FirstOpen({[format |-> 8, channels |-> 1]})
    \/ LoadUpTo(1, {1})
    \/ \E ticks \in {0, 1} : Mix_PlayChannelTimed(0, 1, -1, ticks)
    \/ Mix_PlayChannelTimed(1, 1, -1, 0)
    \/ Fade(0, MIX_FADING_OUT, MaxMs)
    \/ \E which \in {-1, 0, 1} : Mix_HaltChannel(which)
    \/ Mix_Pause(0)
    \/ mix_channels(1)
    \/ Tick

SpecHalt == Init /\ [][NextHalt]_vars

\* sessions opened, reopened in the same and in another format, and closed
NextSession ==
    \/ \E m \in Formats, ok \in BOOLEAN : Mix_OpenAudio(m.format, m.channels, ok)
    \/ Mix_CloseAudio
    \/ Mix_QuerySpec
    \/ LoadUpTo(1, {2})
    \/ \E which \in {0, 1}, loops \in {0, -1} : Mix_PlayChannelTimed(which, 1, loops, 0)
    \/ Mix_AllocateChannels(1)
    \/ mix_channels(1)

SpecSession == Init /\ [][NextSession]_vars

\* tagged channels started at different ticks, and the oldest of a group
NextGroup ==
    \/ FirstOpen({[format |-> 8, channels |-> 1]})
    \/ LoadUpTo(1, {1})
    \/ \E which \in {0, 1}, loops \in {0, -1} : Mix_PlayChannelTimed(which, 1, loops, 0)
    \/ \E which \in {0, 1}, tag \in {0, 1} : Mix_GroupChannel(which, tag)
    \/ \E tag \in Tags : Mix_GroupOldest(tag)
    \/ Mix_Pause(0)
    \/ mix_channels(1)
    \/ Tick

SpecGroup == Init /\ [][NextGroup]_vars

\* the operations that start, stop, time and resize playback, on channel 0, with
\* chunks of whole and of broken frames, short and long buffers, and the clock
NextWalk ==
    \/ FirstOpen({[format |-> 16, channels |-> 1]})
    \/ LoadUpTo(1, {2, 3})
    \/ \E loops \in {-1, 0, 1}, ticks \in {0, 1} :
          Mix_PlayChannelTimed(0, 1, loops, ticks)
    \/ Mix_ExpireChannel(0, 1)
    \/ Mix_Volume(0, 64)
    \/ Mix_HaltChannel(0)
    \/ Mix_Pause(0)
    \/ Mix_FreeChunk(1)
    \/ Mix_AllocateChannels(1)
    \/ \E len \in {1, MaxBuf} : mix_channels(len)
    \/ Tick

SpecWalk == Init /\ [][NextWalk]_vars

\* every operation that takes a channel index, called on an index below the
\* bank, on channel 0 and on the index one past the bank
Indices == {-2, 0, MIX_CHANNELS}

NextIndex ==
    \/ FirstOpen({[format |-> 8, channels |-> 1]})
    \/ LoadUpTo(1, {1})
    \/ \E which \in Indices : Mix_PlayChannelTimed(which, 1, -1, 0)
    \/ \E which \in Indices : Mix_ExpireChannel(which, 1)
    \/ \E which \in Indices : Mix_Volume(which, 64)
    \/ \E which \in Indices : Mix_HaltChannel(which)
    \/ \E which \in Indices : Mix_Pause(which)
    \/ \E which \in Indices : Mix_Resume(which)
    \/ \E which \in Indices : Mix_Playing(which)
    \/ \E which \in Indices : Mix_Paused(which)
    \/ \E which \in Indices : Mix_GetChunk(which)
    \/ \E which \in Indices : Mix_GroupChannel(which, 1)
    \/ Mix_GroupChannels(0, MIX_CHANNELS, 0)
    \/ mix_channels(1)

SpecIndex == Init /\ [][NextIndex]_vars

\* files of every format and length loaded, converted, played and freed
NextLoad ==
    \/ FirstOpen(Formats)
    \/ \E alen \in Lens, wavespec \in WaveSpecs, cvt_ok \in BOOLEAN, len_mult \in {1, 2},
          len_cvt \in 0..MaxLen : Mix_LoadWAV_RW(alen, wavespec, cvt_ok, len_mult, len_cvt)
    \/ \E k \in Chunks : Mix_PlayChannelTimed(0, k, 0, 0)
    \/ \E k \in Chunks : Mix_FreeChunk(k)
    \/ mix_channels(MaxBuf)

SpecLoad == Init /\ [][NextLoad]_vars

\* the operations called on channel -1, over banks of every size from empty up
NextBroadcast ==
    \/ FirstOpen({[format |-> 8, channels |-> 1]})
    \/ LoadUpTo(1, {1})
    \/ \E numchans \in 0..MaxChannels : Mix_AllocateChannels(numchans)
    \/ \E loops \in {0, -1} : Mix_PlayChannelTimed(-1, 1, loops, 0)
    \/ \E volume \in {-1, 64} : Mix_Volume(-1, volume)
    \/ Mix_Pause(-1)
    \/ Mix_Playing(-1)
    \/ Mix_Paused(-1)
    \/ mix_channels(1)

SpecBroadcast == Init /\ [][NextBroadcast]_vars

(* ------------------------------ claims -------------------------------- *)
\* a playback that nothing but mix ticks touched since its play, with no deadline
Undisturbed(c) == run[c].on /\ run[c].by = {} /\ run[c].deadline = 0

\* C1: a chunk of L > 0 bytes played once (loop count 0) on an idle channel, with
\* no deadline, and then only mixed: whatever the buffer sizes, the bytes mixed so
\* far and the bytes left add up to L, the completion notification has been made
\* exactly once if no byte is left and not at all before, and the channel is not
\* playing once no byte is left.
C1_OneShotNotifiesOnce ==
    \A c \in Chans :
        (Undisturbed(c) /\ run[c].idle /\ run[c].loops = 0) =>
            /\ run[c].bytes + mix_channel[c].playing = run[c].len
            /\ run[c].done = (IF mix_channel[c].playing = 0 THEN 1 ELSE 0)
            /\ (run[c].bytes = run[c].len => PlayingCh(mix_channel[c]) = 0)

\* a one-shot playback ended in a later tick than the one that mixed its first bytes
C1_Witness ==
    \E c \in Chans :
        /\ Undisturbed(c) /\ run[c].idle /\ run[c].loops = 0
        /\ lastOp.op = "mix" /\ fired[c] = 1
        /\ mixed[c] < run[c].len /\ run[c].bytes = run[c].len
        /\ PlayingCh(mix_channel[c]) = 0

\* C2: a playback started with loop count K >= 1 on a chunk of L bytes and then
\* only mixed has had fewer than L*(K+1) bytes mixed while it is playing and
\* exactly L*(K+1) once it is not; started with loop count -1 it is playing after
\* any number of mix ticks.
C2_LoopedBytes ==
    \A c \in Chans :
        Undisturbed(c) =>
            /\ run[c].loops >= 1 =>
                 IF PlayingCh(mix_channel[c]) = 1
                 THEN run[c].bytes < run[c].len * (run[c].loops + 1)
                 ELSE run[c].bytes = run[c].len * (run[c].loops + 1)
            /\ run[c].loops = -1 => PlayingCh(mix_channel[c]) = 1

\* a looped playback ended inside a buffer larger than the chunk
C2_Witness ==
    \E c \in Chans :
        /\ Undisturbed(c) /\ run[c].loops >= 1
        /\ lastOp.op = "mix" /\ mixed[c] > run[c].len
        /\ PlayingCh(mix_channel[c]) = 0
        /\ run[c].bytes = run[c].len * (run[c].loops + 1)

\* C3: whenever a channel goes from playing (Mix_Playing = 1) to not playing, the
\* step that stops it makes exactly one completion notification for it.
C3_EveryStopNotifiesOnce ==
    [][\A c \in Slots : (PlayingBit(c) = 1 /\ PlayingBit(c)' = 0) => fired'[c] = 1]_vars


\* C6: for a playing channel whose deadline E was set by play and which was since
\* only paused, resumed and mixed, the deadline of the unpaused channel is E plus
\* the number of ticks the channel spent paused.
C6_DeadlineShiftedByPausedTime ==
    \A c \in Chans :
        ( /\ run[c].on /\ run[c].deadline > 0 /\ run[c].by \subseteq {"paused"}
          /\ mix_channel[c].playing > 0 /\ mix_channel[c].paused = 0
          /\ mix_channel[c].expire > 0 )
        => mix_channel[c].expire = run[c].deadline + run[c].slept

\* C7: a mix tick leaves every field of a paused channel as it was, mixes none of
\* its bytes and makes no notification for it.
C7_PausedUntouched ==
    [][lastOp'.op = "mix" =>
          \A c \in Chans :
              mix_channel[c].paused # 0 =>
                  /\ mix_channel'[c] = mix_channel[c]
                  /\ mixed'[c] = 0
                  /\ fired'[c] = 0]_vars

\* a mix tick has passed over a paused channel whose deadline is behind the clock
C7_Witness ==
    /\ lastOp.op = "mix"
    /\ \E c \in Chans :
           /\ mix_channel[c].paused # 0 /\ mix_channel[c].playing > 0
           /\ mix_channel[c].expire > 0 /\ mix_channel[c].expire < now

\* C8: Mix_ExpireChannel(c, ms) records the deadline now + ms (0 for ms <= 0) and
\* changes neither playing nor looping nor notifies; play with a duration limit
\* records now + ms as well; a mix tick of an unpaused channel with deadline E
\* stops it (playing = 0, looping = 0, deadline cleared, one notification) if the
\* clock has passed E, whatever is left to play, and otherwise keeps the deadline
\* and mixes its bytes; a channel with no deadline is never stopped this way.
C8_Expiration ==
    [][/\ \A ticks \in Durations :
             lastOp'.op = "expire" /\ Mix_ExpireChannel(0, ticks) =>
                 /\ mix_channel'[0].expire = (IF ticks > 0 THEN now + ticks ELSE 0)
                 /\ mix_channel'[0].playing = mix_channel[0].playing
                 /\ mix_channel'[0].looping = mix_channel[0].looping
                 /\ fired'[0] = 0
       /\ \A loops \in {0, 1}, ticks \in 0..MaxMs :
             lastOp'.op = "play" /\ lastOp'.ret = 0
             /\ run'[0].loops = loops /\ run'[0].deadline = Deadline(ticks)
             /\ Mix_PlayChannelTimed(0, 1, loops, ticks) =>
                 mix_channel'[0].expire = (IF ticks > 0 THEN now + ticks ELSE 0)
       /\ lastOp'.op = "mix" =>
             \A c \in Chans :
                 mix_channel[c].paused = 0 =>
                     IF mix_channel[c].expire > 0 /\ now > mix_channel[c].expire
                     THEN /\ mix_channel'[c].playing = 0
                          /\ mix_channel'[c].looping = 0
                          /\ mix_channel'[c].expire = 0
                          /\ fired'[c] = 1
                          /\ mixed'[c] = 0
                     ELSE /\ mix_channel'[c].expire = mix_channel[c].expire
                          /\ mix_channel[c].playing > 0 => mixed'[c] > 0]_vars

\* a mix tick has stopped a looping playback at its deadline, with bytes left
C8_Witness ==
    /\ lastOp.op = "mix" /\ fired[0] = 1 /\ mixed[0] = 0
    /\ run[0].on /\ run[0].deadline > 0 /\ run[0].deadline < now /\ run[0].by = {}
    /\ run[0].loops = 1
    /\ mix_channel[0].playing = 0 /\ mix_channel[0].looping = 0
    /\ mix_channel[0].expire = 0

\* C9: a play that takes channel w notifies for w exactly if w was playing before
\* the call, the notification finding the old playback still in place; afterwards
\* w has its cursor at the start of the chunk, playing = the chunk's length cut to
\* whole frames, looping = the loop count, no pause stamp, no fade, the current
\* tick as start time, and the deadline now + ms for ms > 0, else 0.
C9_PlayOverwrites ==
    [][\A loops \in {0, 1}, ticks \in 0..MaxMs :
          lastOp'.op = "play" /\ lastOp'.ret = 0
          /\ run'[0].loops = loops /\ run'[0].deadline = Deadline(ticks)
          /\ Mix_PlayChannelTimed(0, 1, loops, ticks) =>
              /\ fired'[0] = PlayingCh(mix_channel[0])
              /\ fired'[0] = 1 => seen'[0] = 1
              /\ mix_channel'[0].samples = [buf |-> 1, off |-> 0]
              /\ mix_channel'[0].chunk = 1
              /\ mix_channel'[0].playing =
                     chunk[1].alen - (chunk[1].alen % FrameWidth(mixer))
              /\ mix_channel'[0].looping = loops
              /\ mix_channel'[0].paused = 0
              /\ mix_channel'[0].fading = MIX_NO_FADING
              /\ mix_channel'[0].start_time = now
              /\ mix_channel'[0].expire = (IF ticks > 0 THEN now + ticks ELSE 0)]_vars

\* a play with the longest duration has overwritten a playback after the clock
\* advanced, cutting the chunk to whole frames
C9_Witness ==
    /\ lastOp.op = "play" /\ lastOp.ret = 0
    /\ fired[0] = 1 /\ seen[0] = 1
    /\ ~run[0].idle /\ now > 1
    /\ mix_channel[0].start_time = now
    /\ mix_channel[0].expire = now + MaxMs
    /\ mix_channel[0].playing < MaxLen


\* C10: play returns -1 or the index, inside the bank, of the channel the chunk
\* now plays on; when playback is not started (null chunk, chunk of no whole
\* frame, no free channel for -1, explicit index outside the bank) it returns -1,
\* notifies nothing and leaves every channel as it was.
C10_PlayReturnsChannelOrError ==
    [][\A which \in {-1, 0, MIX_CHANNELS}, k \in {NULL, 1}, loops \in LoopCounts :
          lastOp'.op = "play" /\ Mix_PlayChannelTimed(which, k, loops, 0) =>
              /\ \/ lastOp'.ret = -1
                 \/ /\ lastOp'.ret \in Chans
                    /\ mix_channel'[lastOp'.ret].chunk = k
                    /\ mix_channel'[lastOp'.ret].playing > 0
              /\ ( \/ k = NULL
                   \/ chunk[k].alen - (chunk[k].alen % FrameWidth(mixer)) = 0
                   \/ which = -1 /\ \A i \in Chans : i >= reserved_channels
                                                       => mix_channel[i].playing > 0
                   \/ which \notin Chans \cup {-1} )
                 => /\ lastOp'.ret = -1
                    /\ fired' = Zero
                    /\ mix_channel' = mix_channel]_vars


\* C4: no channel whose chunk has been released is left with bytes to play or
\* loops to run, and no mix tick reads through a released (or null) chunk.
C4_FreeStopsEveryChannel ==
    /\ hazard = {}
    /\ \A c \in Chans :
           (mix_channel[c].chunk # NULL /\ chunk[mix_channel[c].chunk].st = "released")
           => mix_channel[c].playing = 0 /\ mix_channel[c].looping = 0

\* a mix tick ran after a chunk was released under two channels looping it for
\* ever, one of them paused
C4_Witness ==
    /\ lastOp.op = "mix"
    /\ num_channels = 2
    /\ \A c \in Chans :
           /\ mix_channel[c].chunk # NULL
           /\ mix_channel[c].chunk = mix_channel[0].chunk
           /\ chunk[mix_channel[c].chunk].st = "released"
           /\ run[c].on /\ run[c].loops = -1 /\ "other" \in run[c].by
    /\ mix_channel[0].paused # 0

\* C5: the callback never meets a channel half way through a control operation:
\* no mix tick finds playing > 0 on a channel whose chunk is null or released or
\* whose cursor is in another chunk's buffer than the one assigned.
C5_CallbackSeesNoTornChannel == hazard \cap {"null", "released", "cursor"} = {}


\* C11: a play on channel -1 takes the lowest channel i with reserved_channels
\* <= i < num_channels and playing <= 0, and when there is none it returns -1
\* and leaves every channel as it was.
C11_FirstFreeAboveReserved ==
    [][\A loops \in {0, -1} :
          lastOp'.op = "play" /\ Mix_PlayChannelTimed(-1, 1, loops, 0) =>
              LET free == {i \in Chans : /\ i >= reserved_channels
                                         /\ mix_channel[i].playing <= 0}
              IN  IF free # {}
                  THEN /\ lastOp'.ret \in free
                       /\ \A j \in free : lastOp'.ret <= j
                       /\ mix_channel'[lastOp'.ret].chunk = 1
                       /\ mix_channel'[lastOp'.ret].playing > 0
                       /\ \A j \in Chans \ {lastOp'.ret} :
                              mix_channel'[j] = mix_channel[j]
                  ELSE /\ lastOp'.ret = -1
                       /\ mix_channel' = mix_channel]_vars

\* a channel is well formed: every field in its range, a chunk behind its bytes
WellFormed(ch) ==
    /\ ch.volume \in 0..SDL_MIX_MAXVOLUME
    /\ ch.fading \in {MIX_NO_FADING, MIX_FADING_OUT, MIX_FADING_IN}
    /\ ch.playing >= 0 /\ ch.looping >= -1 /\ ch.expire >= 0 /\ ch.paused >= 0
    /\ ch.playing > 0 => ch.chunk # NULL

\* C14: Mix_AllocateChannels(N), N >= 0, returns N and leaves a bank of exactly
\* the channels 0 .. N-1, every one well formed and the new ones in the default
\* state, whatever the bank was before.
C14_BankHoldsN ==
    [][\A n \in 0..MaxChannels :
          lastOp'.op = "allocate" /\ Mix_AllocateChannels(n) =>
              /\ lastOp'.ret = n
              /\ num_channels' = n
              /\ DOMAIN mix_channel' = 0..(n - 1)
              /\ \A i \in 0..(n - 1) :
                     /\ WellFormed(mix_channel'[i])
                     /\ i >= num_channels => mix_channel'[i] = DefaultChannel]_vars

\* the bank was emptied, grown to its largest size and shrunk by one again, the
\* last time under a playing channel 0
C14_Witness ==
    /\ lastOp.op = "allocate" /\ lastOp.ret = MaxChannels - 1
    /\ num_channels = MaxChannels - 1
    /\ mix_channel[0].playing > 0
    /\ run[MaxChannels - 1].on /\ "other" \in run[MaxChannels - 1].by

\* C15: Mix_AllocateChannels(n) with n < 0 or n = num_channels returns
\* num_channels and changes nothing; with n below num_channels it notifies for
\* exactly the playing channels among n .. num_channels-1 and keeps channels
\* 0 .. n-1 as they were; with n above it keeps the old channels as they were
\* and gives the new ones the default state.
C15_AllocateEffect ==
    [][\A n \in (-1)..MaxChannels :
          lastOp'.op = "allocate" /\ Mix_AllocateChannels(n) =>
              IF n < 0 \/ n = num_channels
              THEN /\ lastOp'.ret = num_channels
                   /\ fired' = Zero
                   /\ UNCHANGED << num_decoders, audio_opened, mixer, bank_null,
                                   num_channels, mix_channel, reserved_channels,
                                   chunk, now >>
              ELSE /\ \A i \in Slots :
                          fired'[i] = IF i \in Chans /\ i >= n
                                      THEN PlayingCh(mix_channel[i]) ELSE 0
                   /\ \A i \in Slots : fired'[i] = 1 => seen'[i] = 1
                   /\ \A i \in Chans : i < n => mix_channel'[i] = mix_channel[i]
                   /\ \A i \in 0..(n - 1) :
                          i >= num_channels =>
                              /\ mix_channel'[i].playing = 0
                              /\ mix_channel'[i].looping = 0
                              /\ mix_channel'[i].volume = SDL_MIX_MAXVOLUME
                              /\ mix_channel'[i].fading = MIX_NO_FADING
                              /\ mix_channel'[i].tag = -1
                              /\ mix_channel'[i].expire = 0
                              /\ mix_channel'[i].paused = 0]_vars

\* the bank shrank to one channel under two playing channels: the dropped one
\* was notified for, the kept one plays on
C15_Witness ==
    /\ lastOp.op = "allocate" /\ lastOp.ret = 1
    /\ fired[1] = 1 /\ fired[0] = 0
    /\ mix_channel[0].playing > 0
    /\ run[0].on /\ run[0].by = {}


\* C12: Mix_HaltChannel(c) leaves c with playing = 0, looping = 0, no deadline
\* and no fade, its volume the one before the fade if it was fading and
\* otherwise as it was, Mix_Playing(c) = 0, and notifies once exactly if c was
\* playing before; Mix_HaltChannel(-1) does so for every channel, and a halt of
\* one channel leaves the others as they were.
C12_HaltEffect ==
    [][\A which \in {-1, 0, 1} :
          lastOp'.op = "halt" /\ Mix_HaltChannel(which) =>
              \A c \in Chans :
                  IF which = -1 \/ which = c
                  THEN /\ mix_channel'[c].playing = 0
                       /\ mix_channel'[c].looping = 0
                       /\ mix_channel'[c].expire = 0
                       /\ mix_channel'[c].fading = MIX_NO_FADING
                       /\ mix_channel'[c].volume =
                              (IF mix_channel[c].fading # MIX_NO_FADING
                               THEN mix_channel[c].fade_volume_reset
                               ELSE mix_channel[c].volume)
                       /\ PlayingCh(mix_channel'[c]) = 0
                       /\ fired'[c] = PlayingCh(mix_channel[c])
                  ELSE /\ mix_channel'[c] = mix_channel[c]
                       /\ fired'[c] = 0]_vars

\* a halt has stopped a playing channel in the middle of a fade, putting back a
\* volume the fade had lowered
C12_Witness ==
    /\ lastOp.op = "halt" /\ fired[0] = 1
    /\ run[0].on /\ "other" \in run[0].by
    /\ mix_channel[0].fading = MIX_NO_FADING
    /\ mix_channel[0].fade_length > 0
    /\ mix_channel[0].volume = mix_channel[0].fade_volume_reset
    /\ mix_channel[0].volume > mix_channel[0].fade_volume

\* C13: Mix_Volume(c, v) on a channel of the bank returns the volume c had and
\* leaves min(v, SDL_MIX_MAXVOLUME) for v >= 0 and the old volume for v < 0, and
\* after every step, mix ticks of fading channels included, every channel's
\* volume lies in 0 .. SDL_MIX_MAXVOLUME.
C13_VolumeInRange ==
    [][/\ \A v \in Volumes :
             lastOp'.op = "volume" /\ Mix_Volume(0, v) =>
                 /\ lastOp'.ret = mix_channel[0].volume
                 /\ mix_channel'[0].volume =
                        (IF v < 0 THEN mix_channel[0].volume
                         ELSE IF v > SDL_MIX_MAXVOLUME THEN SDL_MIX_MAXVOLUME ELSE v)
       /\ \A c \in DOMAIN mix_channel' :
             mix_channel'[c].volume \in 0..SDL_MIX_MAXVOLUME]_vars

\* a volume above the maximum was set on a channel whose volume a fade had
\* brought down to a quarter of the maximum
C13_Witness ==
    /\ lastOp.op = "volume" /\ lastOp.ret = SDL_MIX_MAXVOLUME \div 4
    /\ mix_channel[0].volume = SDL_MIX_MAXVOLUME
    /\ mix_channel[0].fading # MIX_NO_FADING

\* the time a fade has run
Elapsed(ch) == now - ch.ticks_fade

\* the channels whose fade-out a mix tick advances: not paused, no deadline passed
FadingOut(c) ==
    /\ mix_channel[c].paused = 0
    /\ mix_channel[c].fading = MIX_FADING_OUT
    /\ ~(mix_channel[c].expire > 0 /\ mix_channel[c].expire < now)

\* the channel as a finished fade-out leaves it
FadeHalted(c) ==
    /\ mix_channel'[c].playing = 0
    /\ mix_channel'[c].looping = 0
    /\ mix_channel'[c].volume = mix_channel[c].fade_volume_reset
    /\ mix_channel'[c].fading = MIX_NO_FADING
    /\ fired'[c] = 1

C16_Reopen ==
    [][\A m \in Formats, ok \in BOOLEAN :
          lastOp'.op = "open" /\ audio_opened > 0
          /\ Mix_OpenAudio(m.format, m.channels, ok) =>
              IF m.format = mixer.format /\ m.channels = mixer.channels
              THEN /\ lastOp'.ret = 0
                   /\ audio_opened' = audio_opened + 1
                   /\ fired' = Zero
                   /\ UNCHANGED << mix_channel, num_channels, bank_null, num_decoders,
                                   mixer >>
              ELSE /\ \A i \in Chans : fired'[i] = PlayingCh(mix_channel[i])
                   /\ ok => /\ lastOp'.ret = 0
                            /\ audio_opened' = 1
                            /\ num_channels' = MIX_CHANNELS
                            /\ DOMAIN mix_channel' = 0..(MIX_CHANNELS - 1)
                            /\ \A i \in DOMAIN mix_channel' :
                                   mix_channel'[i] = DefaultChannel
                            /\ ~bank_null'
                            /\ num_decoders' = 1]_vars

\* a session with a playing channel 0 was opened again in the other format
C16_Witness ==
    /\ lastOp = [op |-> "open", ret |-> 0]
    /\ fired[0] = 1
    /\ audio_opened = 1 /\ mixer.format = 16
    /\ num_channels = MIX_CHANNELS
    /\ run[0].on /\ "other" \in run[0].by

\* C17: the open count is never negative; Mix_CloseAudio on a session that is
\* not open changes nothing; one that leaves the count above zero changes no
\* channel; the one that brings it to zero notifies for every playing channel,
\* halts them all, releases the bank and empties the decoder registry; and
\* Mix_QuerySpec reports the open count, so 0 after the last close.
C17_CloseCounts ==
    [][/\ audio_opened' >= 0
       /\ lastOp'.op = "query" => lastOp'.ret = audio_opened /\ UNCHANGED mix_channel
       /\ lastOp'.op = "close" =>
             IF audio_opened = 0
             THEN /\ fired' = Zero
                  /\ UNCHANGED << audio_opened, num_decoders, mixer, bank_null,
                                  num_channels, mix_channel, reserved_channels, chunk >>
             ELSE IF audio_opened > 1
             THEN /\ audio_opened' = audio_opened - 1
                  /\ fired' = Zero
                  /\ UNCHANGED << num_decoders, mixer, bank_null, num_channels,
                                  mix_channel >>
             ELSE /\ audio_opened' = 0
                  /\ \A i \in Chans :
                         /\ fired'[i] = PlayingCh(mix_channel[i])
                         /\ mix_channel'[i].playing = 0
                         /\ mix_channel'[i].looping = 0
                  /\ bank_null'
                  /\ num_decoders' = 0]_vars

\* the query after the last close of a session, made under two playing channels
C17_Witness ==
    /\ lastOp = [op |-> "query", ret |-> 0]
    /\ audio_opened = 0 /\ bank_null /\ num_decoders = 0
    /\ num_channels = MIX_CHANNELS
    /\ \A i \in Chans : run[i].on /\ "other" \in run[i].by


\* the channels Mix_GroupOldest(tag) chooses among
InGroup(tag) ==
    {i \in Chans : /\ mix_channel[i].playing > 0
                   /\ (tag = -1 \/ mix_channel[i].tag = tag)}

\* C19: Mix_GroupOldest(tag) returns a channel with playing > 0 and the tag (any
\* tag for -1) whose start tick is the least among those channels, and -1
\* exactly when there is no such channel.
C19_OldestInGroup ==
    [][\A tag \in Tags :
          lastOp'.op = "oldest" /\ Mix_GroupOldest(tag) =>
              IF InGroup(tag) = {}
              THEN lastOp'.ret = -1
              ELSE /\ lastOp'.ret \in InGroup(tag)
                   /\ \A j \in InGroup(tag) :
                          mix_channel[lastOp'.ret].start_time
                              <= mix_channel[j].start_time]_vars

\* of two playing channels of one group the higher one, started earlier, was
\* returned, the lower one being paused
C19_Witness ==
    /\ lastOp = [op |-> "oldest", ret |-> 1]
    /\ mix_channel[0].playing > 0 /\ mix_channel[1].playing > 0
    /\ mix_channel[0].tag = 1 /\ mix_channel[1].tag = 1
    /\ mix_channel[1].start_time < mix_channel[0].start_time
    /\ mix_channel[0].paused # 0


\* the bytes of a sequence of SDL_MixAudio calls, one by one, in the order blended
RECURSIVE Blended(_)
Blended(sl) ==
    IF sl = << >> THEN << >>
    ELSE [j \in 1..Head(sl).n |->
             [src |-> Head(sl).src + j - 1, dst |-> Head(sl).dst + j - 1,
              vol |-> Head(sl).vol]]
         \o Blended(Tail(sl))

\* channel c alone plays, at full volume, a playback only mixed since its play
PlaysAlone(c) ==
    /\ Undisturbed(c) /\ run[c].loops >= 0
    /\ mix_channel[c].playing > 0
    /\ mix_channel[c].volume = SDL_MIX_MAXVOLUME
    /\ chunk[mix_channel[c].chunk].volume = MIX_MAX_VOLUME
    /\ \A o \in Chans \ {c} : PlayingCh(mix_channel[o]) = 0

\* C20: when one channel alone plays a chunk of L bytes at full volume, the
\* bytes a mix tick hands to SDL_MixAudio continue the chunk where the ticks
\* before left it: the j-th byte of the tick is byte (b + j) mod L of the chunk,
\* b bytes having been mixed before, it is blended at offset j of the stream at
\* volume SDL_MIX_MAXVOLUME, and nothing is blended for any other channel; a
\* playback with loop count 0 ends after L bytes (C1), each byte blended once.
C20_BlendReproducesChunk ==
    [][lastOp'.op = "mix" =>
          \A c \in Chans :
              PlaysAlone(c) =>
                  LET B == Blended(blend'[c]) IN
                  /\ Len(B) = mixed'[c]
                  /\ Len(B) > 0
                  /\ \A j \in 1..Len(B) :
                         /\ B[j].src = (run[c].bytes + j - 1) % run[c].len
                         /\ B[j].dst = j - 1
                         /\ B[j].vol = SDL_MIX_MAXVOLUME
                  /\ run[c].loops = 0 => Len(B) <= run[c].len - run[c].bytes
                  /\ \A o \in Chans \ {c} : blend'[o] = << >>]_vars

\* the last byte of the longest chunk, played once, was blended on its own at
\* the start of a buffer, the bytes before it having gone into earlier buffers
C20_Witness ==
    /\ lastOp.op = "mix"
    /\ \E c \in Chans :
           /\ Undisturbed(c) /\ run[c].loops = 0
           /\ run[c].len = MaxLen /\ run[c].bytes = MaxLen
           /\ blend[c] = << [src |-> MaxLen - 1, n |-> 1, dst |-> 0,
                             vol |-> SDL_MIX_MAXVOLUME] >>
           /\ mix_channel[c].playing = 0

\* the cursor and the count of a channel agree with the chunk it plays
InsideChunk(ch) ==
    /\ ch.playing > 0 =>
          /\ ch.chunk # NULL
          /\ ch.samples.buf = ch.chunk
          /\ ch.playing <= chunk[ch.chunk].alen
          /\ ch.samples.off >= 0
          /\ ch.samples.off + ch.playing = chunk[ch.chunk].alen
    /\ ch.playing >= 0
    /\ ch.looping # 0 => ch.playing > 0

\* C21: after any sequence of operations and mix ticks, a channel with
\* playing > 0 has a chunk, its cursor is inside the chunk's buffer and cursor
\* offset + playing is the chunk's length, and a channel with looping # 0 has
\* playing > 0; every slice a mix tick hands to SDL_MixAudio lies inside
\* [0, chunk length) and no mix tick reads through a null or misplaced cursor.
C21_CursorInsideChunk ==
    /\ \A c \in Chans : InsideChunk(mix_channel[c])
    /\ hazard \cap {"null", "cursor", "bounds"} = {}
    /\ \A c \in Chans :
          \A j \in 1..Len(blend[c]) :
              /\ blend[c][j].src >= 0 /\ blend[c][j].n > 0
              /\ blend[c][j].src + blend[c][j].n <= chunk[mix_channel[c].chunk].alen

\* a chunk of three bytes cut to one frame of two loops for ever: a mix tick
\* filled a long buffer by wrapping the chunk and left the cursor inside it
C21_Witness ==
    /\ lastOp.op = "mix"
    /\ \E c \in Chans :
          /\ mix_channel[c].looping = -1
          /\ chunk[mix_channel[c].chunk].alen = 2
          /\ Len(blend[c]) >= 2
          /\ mix_channel[c].samples.off = 1 /\ mix_channel[c].playing = 1

\* an index that is neither -1 nor the index of a channel of the bank
OutOfBank(which) == which # -1 /\ which \notin Chans

\* the step is a call of an operation that takes a channel index, on the index which
CalledOn(which) ==
    \/ Mix_PlayChannelTimed(which, 1, -1, 0)
    \/ Mix_ExpireChannel(which, 1)
    \/ Mix_Volume(which, 64)
    \/ Mix_HaltChannel(which)
    \/ Mix_Pause(which)
    \/ Mix_Resume(which)
    \/ Mix_Playing(which)
    \/ Mix_Paused(which)
    \/ Mix_GetChunk(which)
    \/ Mix_GroupChannel(which, 1)

\* C22: an operation that takes a channel index, called on an index that is
\* neither -1 nor inside [0, channel count), touches no storage outside the
\* bank, leaves every channel as it was and returns 0, -1 or the null chunk.
C22_StrayIndexRejected ==
    [][\A which \in Indices :
          (lastOp'.op \in {"play", "expire", "volume", "halt", "pause", "resume",
                           "playing", "paused", "getchunk", "group"}
           /\ audio_opened > 0 /\ OutOfBank(which) /\ CalledOn(which)) =>
              /\ hazard' = {}
              /\ mix_channel' = mix_channel
              /\ lastOp'.ret \in {0, -1, NULL}]_vars

\* C23: when a load converts a chunk, the length handed to the converter is the
\* largest multiple of the file's frame width that is not above the length
\* loaded, whatever the width, and the bytes copied into the conversion buffer
\* are no more than the buffer holds.
C23_ConverterLength ==
    wavecvt.on =>
        /\ wavecvt.len = wavecvt.alen - (wavecvt.alen % wavecvt.samplesize)
        /\ wavecvt.copied <= wavecvt.size

\* C24: the completion callback runs for channel c only in an operation or mix
\* tick before which c was active (Mix_Playing(c) = 1); an idle channel is
\* never notified.
C24_OnlyActiveNotified ==
    [][\A c \in Slots : fired'[c] > 0 => PlayingBit(c) = 1]_vars

\* C25: in every reachable state a channel whose pause stamp is set is active:
\* Mix_Paused(c) = 1 implies Mix_Playing(c) = 1.
C25_PausedIsPlaying ==
    \A c \in Chans : PausedCh(mix_channel[c]) = 1 => PlayingCh(mix_channel[c]) = 1

\* C27: when the completion callback runs for a channel that a halt or a mix
\* tick (expiration, end of a fade-out, end of the chunk) has stopped, the
\* channel's state is final: Mix_Playing(c) read inside the callback is 0.
C27_CallbackSeesStopped ==
    lastOp.op \in {"halt", "mix"} => \A c \in Slots : seen[c] \in {-1, 0}

\* C28: once Mix_FreeChunk has returned, no channel refers to the chunk it
\* released: Mix_GetChunk(c) is never a released chunk.
C28_NoChannelKeepsFreedChunk ==
    \A c \in Chans : GetChunk(c) # NULL => chunk[GetChunk(c)].st # "released"

\* C26: in every reachable state 0 <= reserved_channels <= num_channels, and a
\* play on channel -1 examines no storage outside the bank and returns -1 or
\* the index of a channel of the bank.
C26_ReservedInsideBank ==
    /\ 0 <= reserved_channels /\ reserved_channels <= num_channels
    /\ lastOp.op = "play" => /\ "oob" \notin hazard
                             /\ lastOp.ret \in Chans \cup {-1}

\* C29: for a bank of any size, the empty bank included, each operation called
\* on channel -1 is well defined: no division by zero and no access outside
\* the bank; on the empty bank Mix_Volume(-1, v), Mix_Playing(-1) and
\* Mix_Paused(-1) return 0 and Mix_PlayChannelTimed(-1, ...) returns -1.
C29_BroadcastDefined ==
    lastOp.op \in {"volume", "playing", "paused", "play"} =>
        /\ hazard = {}
        /\ num_channels = 0 =>
              lastOp.ret = (IF lastOp.op = "play" THEN -1 ELSE 0)

\* C30: no operation of the source puts a channel into a fade: after every
\* step every channel's fade state is MIX_NO_FADING, so a mix tick finds no
\* channel to take through its fade branch, and a channel's volume is changed
\* by no operation but Mix_Volume.
C30_NeverFading ==
    [][/\ \A c \in DOMAIN mix_channel' : mix_channel'[c].fading = MIX_NO_FADING
       /\ lastOp'.op = "mix" =>
             \A c \in Chans : mix_channel[c].fading = MIX_NO_FADING
       /\ \A c \in Chans \cap DOMAIN mix_channel' :
             mix_channel'[c].volume # mix_channel[c].volume => lastOp'.op = "volume"]_vars

\* a channel whose volume Mix_Volume had lowered was mixed while it plays under
\* a deadline, and keeps that volume and no fade
C30_Witness ==
    /\ lastOp.op = "mix"
    /\ mixed[0] > 0
    /\ mix_channel[0].volume = 64
    /\ mix_channel[0].fading = MIX_NO_FADING
    /\ mix_channel[0].expire > 0
    /\ mix_channel[0].playing > 0

====
